---------------------------- MODULE Spec2Model ----------------------------
(***************************************************************************)
(* A model of core/audits/byte-efficiency/unused-javascript.js:            *)
(* UnusedJavaScript.audit_ (the per-script loop, the entity roll-up, the   *)
(* sub-items of a bundle) and the helpers commonPrefix and                 *)
(* trimCommonPrefix.                                                       *)
(*                                                                         *)
(* Conventions.                                                            *)
(*  - A JavaScript string is a sequence of UTF-16 code units (naturals):   *)
(*    slice, startsWith and the comparison a > b work on code units.       *)
(*  - An optional value (undefined or a value) is <<>> or <<v>>.           *)
(*  - Math.round(n / d) is computed exactly on the fraction (RoundDiv);    *)
(*    transferRatio is kept as the fraction transfer / totalBytes, and a   *)
(*    percentage as the fraction num / den (den = 0 is NaN).               *)
(***************************************************************************)
EXTENDS Integers, Sequences, FiniteSets, TLC

VARIABLES
    pc,          \* "loop" | "done" | "failed": where audit_ is ("idle": not called)
    options,     \* context.options || {}
    JsUsage,     \* the entries of artifacts.JsUsage consumed so far, in order
    items,       \* const items = []
    byEntity,    \* const byEntity = new Map(), as its entries in insertion order
    result,      \* what audit_ resolved to: <<>> until it returns
    strings,     \* commonPrefix: its argument
    maxWord,     \* commonPrefix: const maxWord
    prefix,      \* commonPrefix: let prefix
    cpPc,        \* commonPrefix: "idle" | "entry" | "while" | "done"
    cpResult     \* commonPrefix: the value returned, <<>> until it returns

vars == <<pc, options, JsUsage, items, byEntity, result,
          strings, maxWord, prefix, cpPc, cpResult>>

auditVars == <<pc, options, JsUsage, items, byEntity, result>>

prefixVars == <<strings, maxWord, prefix, cpPc, cpResult>>

--------------------------------------------------------------------------
(* Bounds of the model *)

MaxScripts == 3

MaxSources == 6

MaxStrings == 3

MaxStrLen == 2

--------------------------------------------------------------------------
(* Program constants *)

UNUSED_BYTES_IGNORE_THRESHOLD == 20 * 1024

UNUSED_BYTES_IGNORE_BUNDLE_SOURCE_THRESHOLD == 512

Ellipsis == 8230

TopSources == 5

--------------------------------------------------------------------------
(* Optional values *)

None == <<>>

Some(v) == <<v>>

IsSome(o) == o # <<>>

Get(o) == o[1]

--------------------------------------------------------------------------
(* Strings *)

\* a.startsWith(p)
StartsWith(a, p) ==
    /\ Len(p) <= Len(a)
    /\ SubSeq(a, 1, Len(p)) = p

\* a > b on strings: the first differing code unit decides, a proper prefix
\* is the smaller.
RECURSIVE StrGT(_, _)
StrGT(a, b) ==
    IF a = <<>> THEN FALSE
    ELSE IF b = <<>> THEN TRUE
    ELSE IF Head(a) # Head(b) THEN Head(a) > Head(b)
    ELSE StrGT(Tail(a), Tail(b))

\* (a, b) => a > b ? a : b
PickMax(a, b) == IF StrGT(a, b) THEN a ELSE b

\* (a, b) => a > b ? b : a
PickMin(a, b) == IF StrGT(a, b) THEN b ELSE a

\* strings.reduce((a, b) => a > b ? a : b) from element i on, acc being the
\* accumulator (the first element is the initial accumulator).
RECURSIVE ReduceMax(_, _, _)
ReduceMax(acc, ss, i) ==
    IF i > Len(ss) THEN acc ELSE ReduceMax(PickMax(acc, ss[i]), ss, i + 1)

\* strings.reduce((a, b) => a > b ? b : a)
RECURSIVE ReduceMin(_, _, _)
ReduceMin(acc, ss, i) ==
    IF i > Len(ss) THEN acc ELSE ReduceMin(PickMin(acc, ss[i]), ss, i + 1)

MaxWordOf(ss) == ReduceMax(ss[1], ss, 2)

\* A variant: the first string in place of the smallest
MinWordFirst(ss) == ss[1]

MinWordOf(ss) == ReduceMin(ss[1], ss, 2)

\* prefix.slice(0, -1)
DropLast(p) == IF Len(p) = 0 THEN p ELSE SubSeq(p, 1, Len(p) - 1)

\* while (!maxWord.startsWith(prefix)) prefix = prefix.slice(0, -1)
RECURSIVE ShortenUntil(_, _)
ShortenUntil(mw, p) ==
    IF StartsWith(mw, p) THEN p ELSE ShortenUntil(mw, DropLast(p))

commonPrefix(ss) ==
    IF Len(ss) = 0 THEN <<>>
    ELSE ShortenUntil(MaxWordOf(ss), MinWordOf(ss))

trimCommonPrefix(string, cp) ==
    IF cp = <<>> THEN string
    ELSE IF StartsWith(string, cp)
         THEN <<Ellipsis>> \o SubSeq(string, Len(cp) + 1, Len(string))
         ELSE string

--------------------------------------------------------------------------
(* Numbers *)

RECURSIVE GCD(_, _)
GCD(a, b) == IF b = 0 THEN a ELSE GCD(b, a % b)

\* transfer / totalBytes for totalBytes > 0 and transfer >= 0, as a fraction in
\* lowest terms (which keeps the products below within TLC's integers).
Ratio(transfer, totalBytes) ==
    LET g == GCD(totalBytes, transfer)
    IN [num |-> transfer \div g, den |-> totalBytes \div g]

\* Math.round(n / d) for d > 0: the nearest integer, a half rounding up.
RoundDiv(n, d) ==
    LET q == n \div d
        r == n % d
    IN IF 2 * r >= d THEN q + 1 ELSE q

\* Math.round(x * transferRatio), transferRatio = ratio.num / ratio.den
Scale(x, ratio) == RoundDiv(x * ratio.num, ratio.den)

\* a / b * 100 as a fraction
Percent(a, b) == [num |-> a * 100, den |-> b]

--------------------------------------------------------------------------
(* The inputs of audit_ *)

\* classifiedEntities.byURL: two entities that are distinct objects with the
\* same name, and a URL that is not classified.
EntityA == [id |-> 1, name |-> "acme", homepage |-> Some("https://acme.example")]

EntityB == [id |-> 2, name |-> "acme", homepage |-> None]

UrlA == "https://cdn.acme.example/a.js"

UrlB == "https://static.acme.example/b.js"

UrlSelf == "https://site.example/main.js"

ScriptUrls == {UrlA, UrlB, UrlSelf}

byURL ==
    [u \in ScriptUrls |->
        IF u = UrlA THEN Some(EntityA)
        ELSE IF u = UrlB THEN Some(EntityB)
        ELSE None]

\* context.options || {}: a record holding the options that are given
NoOptions == [f \in {} |-> 0]

\* const {unusedThreshold = ..., bundleSourceUnusedThreshold = ...} = options
unusedThreshold ==
    IF "unusedThreshold" \in DOMAIN options
    THEN options.unusedThreshold
    ELSE UNUSED_BYTES_IGNORE_THRESHOLD

bundleSourceUnusedThreshold ==
    IF "bundleSourceUnusedThreshold" \in DOMAIN options
    THEN options.bundleSourceUnusedThreshold
    ELSE UNUSED_BYTES_IGNORE_BUNDLE_SOURCE_THRESHOLD

\* '(unmapped)'
Unmapped == <<40, 117, 110, 109, 97, 112, 112, 101, 100, 41>>

\* The i-th source of a bundle: 'src/a', '(unmapped)', 'src/c', 'src/d', ...
SourceName(i) == IF i = 2 THEN Unmapped ELSE <<115, 114, 99, 47, 96 + i>>

\* 'lib/x'
LibSource == <<108, 105, 98, 47, 120>>

\* bundle.sizes of a bundle whose sizes were computed: every source of the
\* bundle has a size in files, the unmapped bytes are counted apart.
OkSizes ==
    [files |-> [n \in {SourceName(i) : i \in (1..(MaxSources + 1)) \ {2}}
                    |-> 9000],
     unmappedBytes |-> 1000]

\* bundle.sizes when the computation failed
ErrorSizes == [errorMessage |-> "sizes failed"]

SourceURLsSrc == [i \in 1..MaxSources |-> SourceName(IF i = 1 THEN 1 ELSE i + 1)]

Bundles ==
    { [sizes |-> ErrorSizes, sourceURLs |-> SourceURLsSrc],
      [sizes |-> OkSizes, sourceURLs |-> SourceURLsSrc],
      [sizes |-> OkSizes, sourceURLs |-> <<LibSource>> \o SourceURLsSrc] }

\* The outcome of UnusedJavascriptSummary.request: a summary, or a rejection
Summary(total, wasted, sources) ==
    [ok |-> TRUE,
     value |-> [totalBytes |-> total,
                wastedBytes |-> wasted,
                wastedPercent |-> Percent(wasted, total),
                sourcesWastedBytes |-> sources]]

Rejected == [ok |-> FALSE]

\* One entry of artifacts.JsUsage with what audit_ resolves for it: whether
\* artifacts.Scripts has the script, its url, whether getRequestForScript finds
\* a record, the bundle found, the summary's outcome, and the transfer size
\* estimateTransferSize gives.
Entry(hasScript, url, hasRecord, bundle, summary, transfer) ==
    [hasScript |-> hasScript, url |-> url, hasRecord |-> hasRecord,
     bundle |-> bundle, summary |-> summary, transfer |-> transfer]

\* <<totalBytes, wastedBytes, transfer>> of the summaries with bytes and waste
Measures ==
    { <<60000, 30000, 60000>>,
      <<40960, 20481, 40960>>,
      <<40960, 20480, 40960>>,
      <<100000, 50000, 10000>>,
      <<1000, 1, 100>> }

\* ... and of the summaries without waste, or without bytes
EmptyMeasures ==
    { <<1000, 0, 1000>>,
      <<0, 0, 0>> }

\* The scripts that are skipped before their entity is looked up need one url.
ScriptEntries ==
    { Entry(FALSE, UrlSelf, FALSE, None, Rejected, 0),
      Entry(TRUE, UrlSelf, FALSE, None, Rejected, 0),
      Entry(TRUE, UrlSelf, TRUE, None, Rejected, 0) }
    \cup
    { Entry(TRUE, UrlSelf, TRUE, None, Summary(m[1], m[2], None), m[3]) :
        m \in EmptyMeasures }
    \cup
    { Entry(TRUE, u, TRUE, None, Summary(m[1], m[2], None), m[3]) :
        u \in ScriptUrls, m \in Measures }

ScriptOptions ==
    { NoOptions, [unusedThreshold |-> 0], [unusedThreshold |-> -1] }

\* The sourcesWastedBytes objects: up to MaxSources entries, in the order of
\* Object.entries, the i-th being the i-th source of the bundle.
WastedValues == {100, 512, 1023, 8000}

SourcesWasted ==
    UNION { { [i \in 1..n |-> <<SourceName(i), f[i]>>] :
                f \in [1..n -> WastedValues] } : n \in 0..MaxSources }

BundleMeasures ==
    { <<100000, 50000, 100000>>,
      <<100000, 50000, 50000>>,
      <<100000, 50000, 10000>> }

BundleEntries ==
    { Entry(TRUE, UrlA, TRUE, b, Summary(m[1], m[2], s), m[3]) :
        b \in {None} \cup {Some(x) : x \in Bundles},
        s \in {None} \cup {Some(x) : x \in SourcesWasted},
        m \in BundleMeasures }

BundleOptions ==
    { NoOptions,
      [bundleSourceUnusedThreshold |-> 4000],
      [bundleSourceUnusedThreshold |-> 0] }

--------------------------------------------------------------------------
(* audit_: the item of a script and the entity roll-up *)

\* A variant: the wasted bytes left unscaled
MakeItemUnscaledWaste(url, summary, ratio, classifiedEntity) ==
    [url |-> url,
     totalBytes |-> Scale(summary.totalBytes, ratio),
     wastedBytes |-> summary.wastedBytes,
     wastedPercent |-> summary.wastedPercent,
     entity |-> IF IsSome(classifiedEntity)
                THEN Some(Get(classifiedEntity).name) ELSE None,
     subItems |-> None]

\* const item = {url, totalBytes, wastedBytes, wastedPercent, entity}
MakeItem(url, summary, ratio, classifiedEntity) ==
    [url |-> url,
     totalBytes |-> Scale(summary.totalBytes, ratio),
     wastedBytes |-> Scale(summary.wastedBytes, ratio),
     wastedPercent |-> summary.wastedPercent,
     entity |-> IF IsSome(classifiedEntity)
                THEN Some(Get(classifiedEntity).name) ELSE None,
     subItems |-> None]

\* A variant: < in place of <=
BelowThresholdStrict(item, threshold) == item.wastedBytes < threshold

\* if (item.wastedBytes <= unusedThreshold) continue;
BelowThreshold(item, threshold) == item.wastedBytes <= threshold

\* A variant: the groups keyed by the entity's name
GroupKeyByName(classifiedEntity) ==
    IF IsSome(classifiedEntity)
    THEN Some([name |-> Get(classifiedEntity).name]) ELSE None

\* The key byEntity is read and written with: the classified entity itself
\* (an object, compared by identity), undefined being a key like any other.
GroupKey(classifiedEntity) == classifiedEntity

\* The group a first item of an entity starts
NewGroup(classifiedEntity) ==
    [url |-> [text |-> IF IsSome(classifiedEntity)
                       THEN Get(classifiedEntity).name ELSE "",
              type |-> "link",
              url |-> IF IsSome(classifiedEntity)
                         /\ IsSome(Get(classifiedEntity).homepage)
                      THEN Get(Get(classifiedEntity).homepage) ELSE "#"],
     groupBy |-> "entity",
     entity |-> IF IsSome(classifiedEntity)
                THEN Get(classifiedEntity).name ELSE "",
     wastedBytes |-> 0,
     totalBytes |-> 0]

\* entityGroup.totalBytes += ...; entityGroup.wastedBytes += ...;
\* entityGroup.wastedPercent = wastedBytes / totalBytes * 100
AddToGroup(group, item) ==
    LET total == group.totalBytes + item.totalBytes
        wasted == group.wastedBytes + item.wastedBytes
    IN [url |-> group.url,
        groupBy |-> group.groupBy,
        entity |-> group.entity,
        wastedBytes |-> wasted,
        totalBytes |-> total,
        wastedPercent |-> Percent(wasted, total)]

\* A variant: the entry of an existing key is deleted and appended anew
MapSetReinsert(map, key, value) ==
    LET Other(entry) == entry.key # key
    IN Append(SelectSeq(map, Other), [key |-> key, value |-> value])

\* Map.prototype.set: the entry of an existing key is replaced where it is,
\* a new key is appended.
MapSet(map, key, value) ==
    IF \E i \in 1..Len(map) : map[i].key = key
    THEN [i \in 1..Len(map) |->
            IF map[i].key = key THEN [key |-> key, value |-> value]
            ELSE map[i]]
    ELSE Append(map, [key |-> key, value |-> value])

\* byEntity.get(classifiedEntity) || {...}, the sums, byEntity.set(...)
RollUp(map, classifiedEntity, item) ==
    LET key == GroupKey(classifiedEntity)
        found == {i \in 1..Len(map) : map[i].key = key}
        entityGroup == IF found = {} THEN NewGroup(classifiedEntity)
                       ELSE map[CHOOSE i \in found : TRUE].value
    IN MapSet(map, key, AddToGroup(entityGroup, item))

\* [...byEntity.values()]
Groups(map) == [i \in 1..Len(map) |-> map[i].value]

--------------------------------------------------------------------------
(* audit_: the sub-items of a bundle *)

\* Array.prototype.sort((a, b) => b[1] - a[1]): a stable sort, by the second
\* component, largest first. Insert(sorted, e) puts e after every element that
\* is not smaller.
RECURSIVE Insert(_, _)
Insert(sorted, e) ==
    IF sorted = <<>> THEN <<e>>
    ELSE IF Head(sorted)[2] >= e[2]
         THEN <<Head(sorted)>> \o Insert(Tail(sorted), e)
         ELSE <<e>> \o sorted

RECURSIVE SortByUnusedDesc(_)
SortByUnusedDesc(entries) ==
    IF entries = <<>> THEN <<>>
    ELSE Insert(SortByUnusedDesc(SubSeq(entries, 1, Len(entries) - 1)),
                entries[Len(entries)])

\* A variant: no slice
SliceAll(seq, n) == seq

\* .slice(0, 5)
Slice(seq, n) == SubSeq(seq, 1, IF Len(seq) < n THEN Len(seq) ELSE n)

\* A variant: > in place of >=
KeepSourceStrict(d, threshold) == d.unused > threshold

\* .filter(d => d.unused >= bundleSourceUnusedThreshold)
KeepSource(d, threshold) == d.unused >= threshold

\* const total = source === '(unmapped)' ? sizes.unmappedBytes : sizes.files[source]
SourceTotal(source, sizes) ==
    IF source = Unmapped THEN sizes.unmappedBytes ELSE sizes.files[source]

\* Object.entries(sourcesWastedBytes).sort(...).slice(0, 5).map(...).filter(...)
topUnusedSourceSizes(sourcesWastedBytes, sizes, ratio, threshold) ==
    LET top == Slice(SortByUnusedDesc(sourcesWastedBytes), TopSources)
        mapped == [i \in 1..Len(top) |->
                      [source |-> top[i][1],
                       unused |-> Scale(top[i][2], ratio),
                       total |-> Scale(SourceTotal(top[i][1], sizes), ratio)]]
        Keep(d) == KeepSource(d, threshold)
    IN SelectSeq(mapped, Keep)

\* item.subItems = {type: 'subitems', items: topUnusedSourceSizes.map(...)}
MakeSubItems(top, commonSourcePrefix) ==
    [type |-> "subitems",
     items |-> [i \in 1..Len(top) |->
                   [source |-> trimCommonPrefix(top[i].source, commonSourcePrefix),
                    sourceBytes |-> top[i].total,
                    sourceWastedBytes |-> top[i].unused]]]

\* A variant: sub-items, empty if need be, on every item
SubItemsAlways(bundle, summary, ratio, threshold) ==
    IF ~IsSome(bundle) \/ "errorMessage" \in DOMAIN Get(bundle).sizes
       \/ ~IsSome(summary.sourcesWastedBytes)
    THEN Some(MakeSubItems(<<>>, <<>>))
    ELSE Some(MakeSubItems(
            topUnusedSourceSizes(Get(summary.sourcesWastedBytes),
                                 Get(bundle).sizes, ratio, threshold),
            commonPrefix(Get(bundle).sourceURLs)))

\* What follows the roll-up: nothing without a bundle or when its sizes carry
\* an error, nothing without sourcesWastedBytes, else the sub-items.
SubItemsFor(bundle, summary, ratio, threshold) ==
    IF ~IsSome(bundle) \/ "errorMessage" \in DOMAIN Get(bundle).sizes
    THEN None
    ELSE IF ~IsSome(summary.sourcesWastedBytes)
    THEN None
    ELSE Some(MakeSubItems(
            topUnusedSourceSizes(Get(summary.sourcesWastedBytes),
                                 Get(bundle).sizes, ratio, threshold),
            commonPrefix(Get(bundle).sourceURLs)))

--------------------------------------------------------------------------
(* audit_: the loop and the return *)

\* continue
Skip == UNCHANGED <<pc, items, byEntity, result>>

\* A variant: the rejection caught, the script skipped
SummarySwallowed == Skip

\* await UnusedJavascriptSummary.request(...) rejects: audit_ rejects with it.
\* Nothing is returned; the locals are left as they were.
SummaryRejects ==
    /\ pc' = "failed"
    /\ UNCHANGED <<items, byEntity, result>>

\* items.push(item), the roll-up, item.subItems
Include(item, classifiedEntity, subItems) ==
    /\ items' = Append(items, [item EXCEPT !.subItems = subItems])
    /\ byEntity' = RollUp(byEntity, classifiedEntity, item)
    /\ UNCHANGED <<pc, result>>

\* One iteration of for (const [scriptId, scriptCoverage] of Object.entries(...))
AuditLoop(e) ==
    /\ pc = "loop"
    /\ Len(JsUsage) < MaxScripts
    /\ JsUsage' = Append(JsUsage, e)
    /\ UNCHANGED <<options, prefixVars>>
    /\ IF ~e.hasScript THEN Skip
       ELSE IF ~e.hasRecord THEN Skip
       ELSE IF ~e.summary.ok THEN SummaryRejects
       ELSE LET unusedJsSummary == e.summary.value IN
            IF unusedJsSummary.wastedBytes = 0 \/ unusedJsSummary.totalBytes = 0
            THEN Skip
            ELSE LET transferRatio == Ratio(e.transfer,
                                             unusedJsSummary.totalBytes)
                     classifiedEntity == byURL[e.url]
                     item == MakeItem(e.url, unusedJsSummary, transferRatio,
                                      classifiedEntity)
                 IN IF BelowThreshold(item, unusedThreshold) THEN Skip
                    ELSE Include(item, classifiedEntity,
                                 SubItemsFor(e.bundle, unusedJsSummary,
                                             transferRatio,
                                             bundleSourceUnusedThreshold))

Headings == <<"url", "totalBytes", "wastedBytes">>

\* return {items, groups, headings}
AuditReturn ==
    /\ pc = "loop"
    /\ pc' = "done"
    /\ result' = Some([items |-> items, groups |-> Groups(byEntity),
                       headings |-> Headings])
    /\ UNCHANGED <<options, JsUsage, items, byEntity, prefixVars>>

PrefixIdle ==
    /\ strings = <<>>
    /\ maxWord = <<>>
    /\ prefix = <<>>
    /\ cpPc = "idle"
    /\ cpResult = None

AuditInit(opts) ==
    /\ pc = "loop"
    /\ options \in opts
    /\ JsUsage = <<>>
    /\ items = <<>>
    /\ byEntity = <<>>
    /\ result = None
    /\ PrefixIdle

\* audit_ over a coverage set of up to MaxScripts scripts without bundles
Init == AuditInit(ScriptOptions)

Next ==
    \/ \E e \in ScriptEntries : AuditLoop(e)
    \/ AuditReturn

Spec == Init /\ [][Next]_vars

\* audit_ over a coverage set of one script, with its bundle
InitBundle == AuditInit(BundleOptions)

NextBundle ==
    \/ /\ JsUsage = <<>>
       /\ \E e \in BundleEntries : AuditLoop(e)
    \/ AuditReturn

SpecBundle == InitBundle /\ [][NextBundle]_vars

--------------------------------------------------------------------------
(* commonPrefix, statement by statement *)

\* The code units and the strings commonPrefix is given
Alphabet == {97, 98}

Words == UNION { [1..n -> Alphabet] : n \in 0..MaxStrLen }

StringLists == UNION { [1..n -> Words] : n \in 0..MaxStrings }

\* if (!strings.length) return '';
CPEmpty ==
    /\ cpPc = "entry"
    /\ Len(strings) = 0
    /\ cpResult' = Some(<<>>)
    /\ cpPc' = "done"
    /\ UNCHANGED <<strings, maxWord, prefix, auditVars>>

\* const maxWord = strings.reduce(...); let prefix = strings.reduce(...);
CPReduce ==
    /\ cpPc = "entry"
    /\ Len(strings) # 0
    /\ maxWord' = MaxWordOf(strings)
    /\ prefix' = MinWordOf(strings)
    /\ cpPc' = "while"
    /\ UNCHANGED <<strings, cpResult, auditVars>>

\* while (!maxWord.startsWith(prefix)) prefix = prefix.slice(0, -1);
CPShorten ==
    /\ cpPc = "while"
    /\ ~StartsWith(maxWord, prefix)
    /\ prefix' = DropLast(prefix)
    /\ UNCHANGED <<strings, maxWord, cpPc, cpResult, auditVars>>

\* return prefix;
CPReturn ==
    /\ cpPc = "while"
    /\ StartsWith(maxWord, prefix)
    /\ cpResult' = Some(prefix)
    /\ cpPc' = "done"
    /\ UNCHANGED <<strings, maxWord, prefix, auditVars>>

InitPrefix ==
    /\ strings \in StringLists
    /\ maxWord = <<>>
    /\ prefix = <<>>
    /\ cpPc = "entry"
    /\ cpResult = None
    /\ pc = "idle"
    /\ options = NoOptions
    /\ JsUsage = <<>>
    /\ items = <<>>
    /\ byEntity = <<>>
    /\ result = None

NextPrefix ==
    \/ CPEmpty
    \/ CPReduce
    \/ CPShorten
    \/ CPReturn

\* A call runs to its end: nothing suspends commonPrefix.
SpecPrefix == InitPrefix /\ [][NextPrefix]_vars /\ WF_vars(NextPrefix)

--------------------------------------------------------------------------
(* What the properties are stated with *)

Range(seq) == {seq[i] : i \in 1..Len(seq)}

Last(seq) == seq[Len(seq)]

\* The integer nearest to x * transfer / total, a half counting upwards
Nearest(x, transfer, total) ==
    LET r == Ratio(transfer, total)
        n == x * r.num
    IN CHOOSE k \in (n \div r.den)..(n \div r.den + 1) :
           /\ 2 * r.den * k - r.den <= 2 * n
           /\ 2 * n < 2 * r.den * k + r.den

\* The script reaches the summary provider, and the provider answers
Resolved(e) == e.hasScript /\ e.hasRecord /\ e.summary.ok

\* The provider is asked for the script and fails
ProviderFails(e) == e.hasScript /\ e.hasRecord /\ ~e.summary.ok

ScaledWasted(e) ==
    Nearest(e.summary.value.wastedBytes, e.transfer, e.summary.value.totalBytes)

ScaledTotal(e) ==
    Nearest(e.summary.value.totalBytes, e.transfer, e.summary.value.totalBytes)

\* The conditions under which a script of the coverage set is reported
Qualifies(e) ==
    /\ Resolved(e)
    /\ e.summary.value.wastedBytes # 0
    /\ e.summary.value.totalBytes # 0
    /\ ScaledWasted(e) > unusedThreshold

\* The positions in JsUsage of the scripts that are reported, in order
Reported ==
    LET Q(i) == Qualifies(JsUsage[i])
    IN SelectSeq([i \in 1..Len(JsUsage) |-> i], Q)

\* The entity a script is classified as (<<>>: none)
EntityOf(e) == byURL[e.url]

\* The first occurrences of the elements of a sequence, in order
RECURSIVE FirstSeen(_)
FirstSeen(seq) ==
    IF seq = <<>> THEN <<>>
    ELSE LET before == FirstSeen(SubSeq(seq, 1, Len(seq) - 1))
         IN IF Last(seq) \in Range(before) THEN before
            ELSE Append(before, Last(seq))

RECURSIVE SumOver(_, _)
SumOver(f, S) ==
    IF S = {} THEN 0
    ELSE LET x == CHOOSE x \in S : TRUE IN f[x] + SumOver(f, S \ {x})

\* The groups as they stand, and the groups of the report once it is returned
GroupLists ==
    {Groups(byEntity)} \cup
    (IF IsSome(result) THEN {Get(result).groups} ELSE {})

ItemLists ==
    {items} \cup (IF IsSome(result) THEN {Get(result).items} ELSE {})

\* A fraction has the value n
FractionIs(p, n) == p.den # 0 /\ p.num = n * p.den

--------------------------------------------------------------------------
\* C1: a script of the coverage set produces an item if and only if its script
\* descriptor exists, a network record is resolved, its summary has
\* wastedBytes # 0 and totalBytes # 0, and its scaled wastedBytes
\* round(transferRatio * wastedBytes) are strictly greater than
\* unusedThreshold. An iteration over such a script appends one item (that
\* script's); any other iteration leaves items and the entity groups as they
\* are and, unless the provider failed, leaves the loop running.
C1_ItemIffQualifies ==
    [][JsUsage' # JsUsage =>
        LET e == Last(JsUsage')
        IN IF Qualifies(e)
           THEN /\ Len(items') = Len(items) + 1
                /\ SubSeq(items', 1, Len(items)) = items
                /\ Last(items').url = e.url
                /\ Last(items').wastedBytes = ScaledWasted(e)
                /\ Last(items').wastedBytes > unusedThreshold
                /\ pc' = "loop"
           ELSE /\ items' = items
                /\ byEntity' = byEntity
                /\ (~ProviderFails(e) => pc' = "loop")]_vars

\* A script whose scaled wasted bytes equal the default threshold was excluded
\* and the next one, one byte above, was included.
C1_Witness ==
    /\ Len(JsUsage) = 2
    /\ unusedThreshold = UNUSED_BYTES_IGNORE_THRESHOLD
    /\ Resolved(JsUsage[1]) /\ Resolved(JsUsage[2])
    /\ JsUsage[1].summary.value.totalBytes # 0
    /\ ScaledWasted(JsUsage[1]) = unusedThreshold
    /\ JsUsage[2].summary.value.totalBytes # 0
    /\ ScaledWasted(JsUsage[2]) = unusedThreshold + 1
    /\ Len(items) = 1
    /\ items[1].wastedBytes = unusedThreshold + 1
    /\ Len(byEntity) = 1

--------------------------------------------------------------------------
\* C3: after every iteration and in the final report there is one group per
\* classified entity (the entity object, or the absent entity) that has a
\* reported item; its totalBytes and wastedBytes are the sums of the scaled
\* bytes of exactly the reported items of that entity, and its wastedPercent
\* is wastedBytes / totalBytes * 100 of those sums.
C3_GroupSums ==
    LET reported == Reported
        keyOf == [k \in 1..Len(reported) |-> EntityOf(JsUsage[reported[k]])]
        total == [k \in 1..Len(reported) |-> items[k].totalBytes]
        wasted == [k \in 1..Len(reported) |-> items[k].wastedBytes]
        of(key) == {k \in 1..Len(reported) : keyOf[k] = key}
    IN /\ Len(items) = Len(reported)
       /\ {byEntity[g].key : g \in 1..Len(byEntity)} = Range(keyOf)
       /\ \A g, h \in 1..Len(byEntity) :
             byEntity[g].key = byEntity[h].key => g = h
       /\ \A g \in 1..Len(byEntity) :
             LET group == byEntity[g].value
                 mine == of(byEntity[g].key)
             IN /\ group.totalBytes = SumOver(total, mine)
                /\ group.wastedBytes = SumOver(wasted, mine)
                /\ group.wastedPercent =
                       Percent(SumOver(wasted, mine), SumOver(total, mine))
       /\ IsSome(result) => Get(result).groups = Groups(byEntity)

\* Two reported items of one entity with wastedBytes=30000, totalBytes=60000
\* each, a reported item of the other entity of the same name between them:
\* the first group has wastedBytes=60000, totalBytes=120000, wastedPercent=50.
C3_Witness ==
    /\ IsSome(result)
    /\ Len(items) = 3
    /\ items[1].wastedBytes = 30000 /\ items[1].totalBytes = 60000
    /\ items[3].wastedBytes = 30000 /\ items[3].totalBytes = 60000
    /\ Len(Get(result).groups) = 2
    /\ byEntity[1].key = Some(EntityA)
    /\ byEntity[2].key = Some(EntityB)
    /\ Get(result).groups[1].wastedBytes = 60000
    /\ Get(result).groups[1].totalBytes = 120000
    /\ FractionIs(Get(result).groups[1].wastedPercent, 50)

--------------------------------------------------------------------------
\* C4: when every summary has 0 <= wastedBytes <= totalBytes and every
\* estimated transfer size is non-negative, every item and every entity group,
\* after each iteration and in the final report, has wastedBytes <= totalBytes.
C4_WastedAtMostTotal ==
    (\A i \in 1..Len(JsUsage) :
        /\ JsUsage[i].transfer >= 0
        /\ Resolved(JsUsage[i]) =>
              /\ 0 <= JsUsage[i].summary.value.wastedBytes
              /\ JsUsage[i].summary.value.wastedBytes
                    <= JsUsage[i].summary.value.totalBytes)
    => /\ \A list \in ItemLists : \A k \in 1..Len(list) :
             list[k].wastedBytes <= list[k].totalBytes
       /\ \A list \in GroupLists : \A g \in 1..Len(list) :
             list[g].wastedBytes <= list[g].totalBytes

\* A script delivered at a tenth of its size is reported (the threshold being
\* 0) with both figures scaled down, and its group holds the same figures.
C4_Witness ==
    /\ IsSome(result)
    /\ Len(JsUsage) = 1
    /\ JsUsage[1].transfer = 10000
    /\ JsUsage[1].summary.value.totalBytes = 100000
    /\ Len(Get(result).items) = 1
    /\ Get(result).items[1].totalBytes = 10000
    /\ Get(result).items[1].wastedBytes = 5000
    /\ Get(result).groups[1].totalBytes = 10000
    /\ Get(result).groups[1].wastedBytes = 5000

--------------------------------------------------------------------------
--------------------------------------------------------------------------
\* C6: when the summary provider fails for a script, audit_ fails: no report
\* is returned, whatever items and groups earlier scripts produced, and no
\* later script is processed (the failing script is the last one consumed).
C6_ProviderFailureAborts ==
    \A i \in 1..Len(JsUsage) :
        ProviderFails(JsUsage[i]) =>
            /\ pc = "failed"
            /\ result = None
            /\ i = Len(JsUsage)

\* The provider failed for the third script, after two items in two groups.
C6_Witness ==
    /\ Len(JsUsage) = 3
    /\ ProviderFails(JsUsage[3])
    /\ Len(items) = 2
    /\ Len(byEntity) = 2
    /\ pc = "failed"
    /\ result = None

--------------------------------------------------------------------------
\* A step removes no group: the keys grouped before it are still grouped,
\* in the same places.
GroupsKept ==
    /\ Len(byEntity') >= Len(byEntity)
    /\ \A g \in 1..Len(byEntity) : byEntity'[g].key = byEntity[g].key

\* No group, in the loop or in the report, has zero wastedBytes
NoZeroWasteGroup ==
    \A list \in GroupLists : \A g \in 1..Len(list) : list[g].wastedBytes # 0

\* C10 as stated: for any numeric unusedThreshold a group once created is
\* never removed, and no entity group with zero wastedBytes ever exists.
C10_AsStated == [][GroupsKept]_vars /\ []NoZeroWasteGroup

\* C10, amended: a group once created is never removed, for any numeric
\* unusedThreshold; and when unusedThreshold is not negative, no entity group
\* with zero wastedBytes ever exists, in the loop or in the report.
C10_NoZeroWasteGroup ==
    [][GroupsKept]_vars /\ [](unusedThreshold >= 0 => NoZeroWasteGroup)

\* With unusedThreshold = 0 a script whose scaled wasted bytes are 0 was
\* skipped after a group had been created, and the group is in the report.
C10_Witness ==
    /\ "unusedThreshold" \in DOMAIN options
    /\ unusedThreshold = 0
    /\ Len(JsUsage) = 2
    /\ Qualifies(JsUsage[1])
    /\ Resolved(JsUsage[2])
    /\ JsUsage[2].summary.value.wastedBytes # 0
    /\ JsUsage[2].summary.value.totalBytes # 0
    /\ ScaledWasted(JsUsage[2]) = 0
    /\ IsSome(result)
    /\ Len(Get(result).groups) = 1

--------------------------------------------------------------------------
(* The sub-items of the one script of SpecBundle *)

\* The sub-item lists there are: of the items, and of the items of the report
SubItemLists ==
    UNION { {Get(list[k].subItems).items :
                k \in {j \in 1..Len(list) : IsSome(list[j].subItems)}} :
            list \in ItemLists }

\* The scaled wasted bytes of the sources of a script, in the order of
\* sourcesWastedBytes
ScaledSources(e) ==
    LET sources == Get(e.summary.value.sourcesWastedBytes)
    IN [i \in 1..Len(sources) |->
           Nearest(sources[i][2], e.transfer, e.summary.value.totalBytes)]

Min(a, b) == IF a < b THEN a ELSE b

\* The bundle of the script exists and its sizes were computed
BundleOk(e) ==
    /\ IsSome(e.bundle)
    /\ "errorMessage" \notin DOMAIN Get(e.bundle).sizes

\* C2 as stated: a source whose scaled wasted bytes are at or below
\* bundleSourceUnusedThreshold is dropped; only sources strictly above the
\* threshold appear as sub-items.
C2_AsStated ==
    \A subs \in SubItemLists : \A j \in 1..Len(subs) :
        subs[j].sourceWastedBytes > bundleSourceUnusedThreshold

\* C2, amended: a source among the top 5 is dropped when its scaled wasted
\* bytes are strictly below bundleSourceUnusedThreshold; a source whose scaled
\* wasted bytes equal the threshold exactly does appear as a sub-item. The
\* sub-items are the sources at or above the threshold, five at most.
C2_DropsBelowThreshold ==
    \A k \in 1..Len(items) :
        IsSome(items[k].subItems) =>
            LET subs == Get(items[k].subItems).items
                scaled == ScaledSources(JsUsage[1])
                atOrAbove == {i \in 1..Len(scaled) :
                                 scaled[i] >= bundleSourceUnusedThreshold}
            IN /\ \A j \in 1..Len(subs) :
                     subs[j].sourceWastedBytes >= bundleSourceUnusedThreshold
               /\ Len(subs) = Min(TopSources, Cardinality(atOrAbove))

\* Two sources, 100 and 512 unused bytes, delivered unscaled, the threshold the
\* default 512: only the second is a sub-item, with exactly 512 wasted bytes.
C2_Witness ==
    /\ Len(items) = 1
    /\ bundleSourceUnusedThreshold = UNUSED_BYTES_IGNORE_BUNDLE_SOURCE_THRESHOLD
    /\ JsUsage[1].transfer = JsUsage[1].summary.value.totalBytes
    /\ IsSome(JsUsage[1].summary.value.sourcesWastedBytes)
    /\ Len(Get(JsUsage[1].summary.value.sourcesWastedBytes)) = 2
    /\ Get(JsUsage[1].summary.value.sourcesWastedBytes)[1][2] = 100
    /\ Get(JsUsage[1].summary.value.sourcesWastedBytes)[2][2] = 512
    /\ IsSome(items[1].subItems)
    /\ Len(Get(items[1].subItems).items) = 1
    /\ Get(items[1].subItems).items[1].sourceWastedBytes = 512

--------------------------------------------------------------------------
\* C7: no item carries more than 5 sub-items, and the sub-items of an item are
\* in non-increasing order of their scaled, rounded sourceWastedBytes, whatever
\* the sourcesWastedBytes, the transfer ratio and the per-source threshold.
C7_SubItemCapAndOrder ==
    \A subs \in SubItemLists :
        /\ Len(subs) <= 5
        /\ \A j \in 1..(Len(subs) - 1) :
              subs[j].sourceWastedBytes >= subs[j + 1].sourceWastedBytes

\* Six sources given in increasing order of waste, delivered at half their
\* size, every one above the threshold: five sub-items, largest first.
C7_Witness ==
    /\ IsSome(result)
    /\ Len(Get(result).items) = 1
    /\ 2 * JsUsage[1].transfer = JsUsage[1].summary.value.totalBytes
    /\ IsSome(JsUsage[1].summary.value.sourcesWastedBytes)
    /\ Len(Get(JsUsage[1].summary.value.sourcesWastedBytes)) = 6
    /\ Get(JsUsage[1].summary.value.sourcesWastedBytes)[1][2] = 100
    /\ Get(JsUsage[1].summary.value.sourcesWastedBytes)[6][2] = 8000
    /\ IsSome(Get(result).items[1].subItems)
    /\ Len(Get(Get(result).items[1].subItems).items) = 5
    /\ Get(Get(result).items[1].subItems).items[1].sourceWastedBytes = 4000
    /\ Get(Get(result).items[1].subItems).items[5].sourceWastedBytes = 50

--------------------------------------------------------------------------
\* C8: a script whose bundle carries an error marker in place of its sizes, or
\* that has no bundle, is reported under the same conditions and with the same
\* url, totalBytes, wastedBytes, wastedPercent and entity (none of which
\* depends on the bundle), adds the same amounts to its entity group, and has
\* no sub-items. An item has sub-items only when the bundle exists, has sizes
\* without an error marker, and the summary has sourcesWastedBytes.
C8_BundleErrorDegrades ==
    /\ \A k \in 1..Len(items) :
          IsSome(items[k].subItems) =>
              /\ BundleOk(JsUsage[1])
              /\ IsSome(JsUsage[1].summary.value.sourcesWastedBytes)
    /\ (JsUsage # <<>> /\ ~BundleOk(JsUsage[1])) =>
          LET e == JsUsage[1] IN
          IF Qualifies(e)
          THEN /\ items = << [url |-> e.url,
                              totalBytes |-> ScaledTotal(e),
                              wastedBytes |-> ScaledWasted(e),
                              wastedPercent |-> e.summary.value.wastedPercent,
                              entity |-> IF IsSome(EntityOf(e))
                                         THEN Some(Get(EntityOf(e)).name)
                                         ELSE None,
                              subItems |-> None] >>
               /\ Len(byEntity) = 1
               /\ byEntity[1].key = EntityOf(e)
               /\ byEntity[1].value.totalBytes = ScaledTotal(e)
               /\ byEntity[1].value.wastedBytes = ScaledWasted(e)
               /\ pc # "failed"
               /\ IsSome(result) => Get(result).items = items
          ELSE items = <<>> /\ byEntity = <<>>

\* A script whose bundle carries an error marker and whose summary has
\* sourcesWastedBytes is in the report, without sub-items.
C8_Witness ==
    /\ IsSome(result)
    /\ Len(JsUsage) = 1
    /\ IsSome(JsUsage[1].bundle)
    /\ "errorMessage" \in DOMAIN Get(JsUsage[1].bundle).sizes
    /\ IsSome(JsUsage[1].summary.value.sourcesWastedBytes)
    /\ Len(Get(JsUsage[1].summary.value.sourcesWastedBytes)) = 3
    /\ Len(Get(result).items) = 1
    /\ Get(result).items[1].wastedBytes = 25000
    /\ Get(result).items[1].subItems = None
    /\ Get(result).groups[1].wastedBytes = 25000

--------------------------------------------------------------------------
(* commonPrefix *)

\* p is a prefix of every string of ss
IsCommonPrefix(p, ss) == \A i \in 1..Len(ss) : StartsWith(ss[i], p)

\* m is a string of ss that none is smaller than / none is greater than
IsSmallest(m, ss) == m \in Range(ss) /\ \A i \in 1..Len(ss) : ~StrGT(m, ss[i])

IsLargest(m, ss) == m \in Range(ss) /\ \A i \in 1..Len(ss) : ~StrGT(ss[i], m)

\* What commonPrefix returned is right: the empty string for the empty list,
\* else a prefix of every string that no longer prefix of the strings extends
\* (a common prefix is a prefix of the first string).
CPResultRight ==
    cpPc = "done" =>
        LET p == Get(cpResult)
        IN IF Len(strings) = 0 THEN p = <<>>
           ELSE /\ IsCommonPrefix(p, strings)
                /\ \A n \in (Len(p) + 1)..Len(strings[1]) :
                      ~IsCommonPrefix(SubSeq(strings[1], 1, n), strings)

\* In the loop only the two extremes are at work: maxWord is the largest
\* string and prefix is a prefix of the smallest.
CPFromExtremes ==
    cpPc = "while" =>
        /\ IsLargest(maxWord, strings)
        /\ \E m \in Range(strings) : IsSmallest(m, strings) /\ StartsWith(m, prefix)

\* C9: for every list of strings commonPrefix returns a prefix of every
\* element that is the longest such string, computed from the smallest and
\* the largest element only; for the empty list it returns the empty string;
\* and the shortening loop always terminates.
C9_CommonPrefix ==
    /\ [](CPResultRight /\ CPFromExtremes)
    /\ <>(cpPc = "done")

\* Three strings, 'b', 'ab' and 'ba': the loop shortened the smallest, 'ab',
\* twice against the largest, 'ba', and the empty string was returned.
C9_Witness ==
    /\ cpPc = "done"
    /\ Len(strings) = 3
    /\ strings[1] = <<98>>
    /\ strings[2] = <<97, 98>>
    /\ strings[3] = <<98, 97>>
    /\ cpResult = Some(<<>>)

\* The statements of commonPrefix and the operator audit_ uses agree.
CPAgrees == cpPc = "done" => Get(cpResult) = commonPrefix(strings)

==========================================================================
